---------------------------- MODULE Spec2Model ----------------------------
(***************************************************************************)
(* A model of lenn42/pluto, src/lib/scoring.ts: the scoring library        *)
(* (clamp, sigmoid, scoreDayFromValues, emaScore, scoreEntryLocal,         *)
(* toLocalDateKey), the log page (Page), the report page (ReportPage) and  *)
(* the Emotion Analyzer page (analyze, Page).                              *)
(*                                                                         *)
(* JavaScript numbers are IEEE-754 doubles.  They are modelled as          *)
(* fixed-point numbers: the integer k stands for k / Q.  Every operation   *)
(* rounds its exact result to the nearest representable number, overflows  *)
(* to +Infinity / -Infinity beyond MaxNum and follows the IEEE rules for   *)
(* Infinity and NaN.  The range and the resolution are those of a scaled   *)
(* down double; the rules are those of the double.                         *)
(***************************************************************************)
EXTENDS Integers, Sequences, FiniteSets, TLC

VARIABLES
    text,          \* classifier harness: the string handed to scoreEntryLocal
    scored,        \* classifier harness: what scoreEntryLocal returned
    values,        \* day harness: the values handed to scoreDayFromValues
    cfg,           \* day harness: the ScoreConfig handed to scoreDayFromValues
    dayScore,      \* day harness: what scoreDayFromValues returned
    now,           \* the clock: what new Date() returns, in hours since the epoch
    tz,            \* the time zone of the browser
    page,          \* the page that is mounted: "closed", "log" or "report"
    entries,       \* useState<Entry[]>, loaded from localStorage
    scoredToday,   \* log page: the memo scoredToday
    todayScore,    \* log page: the memo todayScore
    keys,          \* report page: lastNDaysKeys(7).reverse()
    prevSmoothed,  \* report page: let prevSmoothed, carried from day to day
    days,          \* report page: the DayScores built so far by keys.map
    calls,         \* the ids of the notes whose text was handed to scoreEntryLocal
                   \* by the mounted page
    eaText,        \* Emotion Analyzer: useState("") text, the textarea
    result,        \* Emotion Analyzer: useState<Result | null>(null)
    busy,          \* Emotion Analyzer: useState(false)
    pending,       \* Emotion Analyzer: the calls of onAnalyze waiting at their
                   \* await, oldest first, each with the text it will read
    afterReset     \* Emotion Analyzer, history: Reset has been clicked and
                   \* Analyze has not been clicked since

classifierVars == <<text, scored>>
dayVars == <<values, cfg, dayScore>>
appVars == <<now, tz, page, entries, scoredToday, todayScore, keys, prevSmoothed, days, calls>>
analyzerVars == <<eaText, result, busy, pending, afterReset>>
vars == <<classifierVars, dayVars, appVars, analyzerVars>>

---------------------------------------------------------------------------
(* Numbers *)

\* Units per 1.0: the resolution of the modelled double (a power of ten, so
\* that 1.8, 0.3 and 6 are representable as they are, up to rounding, in
\* the double).
Q == 10 * 10 * 10

\* The largest finite magnitude, in units (Number.MAX_VALUE scaled down).
MaxNum == 1000000

PosInf == MaxNum + 1
NegInf == -(MaxNum + 1)
NaN == MaxNum + 2
\* undefined and null, the two non-numbers the code tests for.
Undefined == MaxNum + 3
Null == MaxNum + 4

IsFinite(x) == -MaxNum <= x /\ x <= MaxNum
IsNumber(x) == IsFinite(x) \/ x = PosInf \/ x = NegInf \/ x = NaN

\* The integer n, and the decimal i.t, as numbers.
Num(n) == n * Q
Dec(i, t) == i * Q + t * (Q \div 10)

Abs(k) == IF k < 0 THEN -k ELSE k
Sign(k) == IF k < 0 THEN -1 ELSE 1

\* n / d rounded to the nearest integer, n >= 0, d > 0.
RoundDiv(n, d) == (2 * n + d) \div (2 * d)

\* a * b / d rounded to the nearest integer, without an intermediate that
\* leaves 32 bits; a, b >= 0, d > 0.
MulDiv(a, b, d) == a * (b \div d) + RoundDiv(a * (b % d), d)

\* Overflow: a finite result beyond MaxNum becomes an infinity.
Sat(k) == IF k > MaxNum THEN PosInf ELSE IF k < -MaxNum THEN NegInf ELSE k

\* a + b
fadd(a, b) ==
    IF a = NaN \/ b = NaN THEN NaN
    ELSE IF (a = PosInf /\ b = NegInf) \/ (a = NegInf /\ b = PosInf) THEN NaN
    ELSE IF a = PosInf \/ b = PosInf THEN PosInf
    ELSE IF a = NegInf \/ b = NegInf THEN NegInf
    ELSE Sat(a + b)

\* -a
fneg(a) == IF a = NaN THEN NaN ELSE -a

\* a - b
fsub(a, b) == fadd(a, fneg(b))

\* a * b
fmul(a, b) ==
    IF a = NaN \/ b = NaN THEN NaN
    ELSE IF ~IsFinite(a) \/ ~IsFinite(b)
         THEN (IF a = 0 \/ b = 0 THEN NaN
               ELSE IF Sign(a) = Sign(b) THEN PosInf ELSE NegInf)
    ELSE Sat(Sign(a) * Sign(b) * MulDiv(Abs(a), Abs(b), Q))

\* a / b (the sign of a zero is not modelled: x / 0 is x / +0)
fdiv(a, b) ==
    IF a = NaN \/ b = NaN THEN NaN
    ELSE IF ~IsFinite(a) /\ ~IsFinite(b) THEN NaN
    ELSE IF ~IsFinite(b) THEN 0
    ELSE IF ~IsFinite(a)
         THEN (IF Sign(a) = Sign(b) THEN PosInf ELSE NegInf)
    ELSE IF b = 0
         THEN (IF a = 0 THEN NaN ELSE IF a > 0 THEN PosInf ELSE NegInf)
    ELSE Sat(Sign(a) * Sign(b) * RoundDiv(Abs(a) * Q, Abs(b)))

\* Math.max(a, b) and Math.min(a, b): NaN if either is NaN.
MathMax(a, b) == IF a = NaN \/ b = NaN THEN NaN ELSE IF a >= b THEN a ELSE b
MathMin(a, b) == IF a = NaN \/ b = NaN THEN NaN ELSE IF a <= b THEN a ELSE b

\* a <= b and a >= b as JavaScript compares: false when either is NaN.
Leq(a, b) == a # NaN /\ b # NaN /\ a <= b
Geq(a, b) == a # NaN /\ b # NaN /\ a >= b

\* e^0 .. e^8 and e^0.0 .. e^0.9, in units of 1/10000.
EPos == <<10000, 27183, 73891, 200855, 545982, 1484132, 4034288,
          10966332, 29809580>>
ETenth == <<10000, 11052, 12214, 13499, 14918, 16487, 18221, 20138,
            22255, 24596>>

\* e^(r/Q) for 0 <= r < Q/10, in units of 1/10000: 1 + x + x^2/2 + x^3/6.
ExpFrac(r) == 10000 + 10 * r + RoundDiv(r * r * (3000 + r), 600000)

\* e^(a/Q) for 0 <= a < 9 Q, in units of 1/10000.
ExpPos4(a) ==
    MulDiv(RoundDiv(ETenth[((a % Q) \div 100) + 1] * ExpFrac(a % 100), 10000),
           EPos[(a \div Q) + 1], 10000)

\* Math.exp(x): overflows to Infinity, underflows to 0.
MathExp(x) ==
    IF x = NaN THEN NaN
    ELSE IF x = PosInf THEN PosInf
    ELSE IF x = NegInf THEN 0
    ELSE IF x >= 9 * Q THEN PosInf
    ELSE IF x <= -(9 * Q) THEN 0
    ELSE IF x >= 0 THEN Sat(RoundDiv(ExpPos4(x), 10))
    ELSE RoundDiv(10000 * Q, ExpPos4(-x))

---------------------------------------------------------------------------
(* lib/scoring.ts: the math core *)

DEFAULT_CONFIG == [lambda |-> Dec(1, 8), scale |-> Num(6), emaAlpha |-> Dec(0, 3)]

\* clamp(n, min = 0, max = 100)
clamp(n) == MathMax(Num(0), MathMin(Num(100), n))

\* sigmoid(z) = 1 / (1 + Math.exp(-z))
sigmoid(z) == fdiv(Num(1), fadd(Num(1), MathExp(fneg(z))))

\* A slip: the values are added as they are, without Math.max(0, v).
RECURSIVE ReducePos_NoMax(_, _, _)
ReducePos_NoMax(vs, i, acc) ==
    IF i > Len(vs) THEN acc
    ELSE ReducePos_NoMax(vs, i + 1, fadd(acc, vs[i]))

\* values.reduce((acc, v) => acc + Math.max(0, v), 0), from element i on.
RECURSIVE ReducePos(_, _, _)
ReducePos(vs, i, acc) ==
    IF i > Len(vs) THEN acc
    ELSE ReducePos(vs, i + 1, fadd(acc, MathMax(Num(0), vs[i])))

\* values.reduce((acc, v) => acc + Math.max(0, -v), 0), from element i on.
RECURSIVE ReduceNeg(_, _, _)
ReduceNeg(vs, i, acc) ==
    IF i > Len(vs) THEN acc
    ELSE ReduceNeg(vs, i + 1, fadd(acc, MathMax(Num(0), fneg(vs[i]))))

\* z = (p - config.lambda * n) / config.scale
ZOf(p, n, config) == fdiv(fsub(p, fmul(config.lambda, n)), config.scale)

scoreDayFromValues(vs, config) ==
    LET p == ReducePos(vs, 1, Num(0))
        n == ReduceNeg(vs, 1, Num(0))
        z == ZOf(p, n, config)
        raw == fmul(Num(100), sigmoid(z))
    IN  [positiveSum |-> p, negativeSum |-> n, rawScore |-> clamp(raw)]

\* A slip: the two weights are swapped.
emaScore_Swapped(todayRaw, yesterdaySmoothed, config) ==
    IF yesterdaySmoothed = Null \/ yesterdaySmoothed = Undefined
    THEN clamp(todayRaw)
    ELSE LET a == config.emaAlpha
         IN  clamp(fadd(fmul(fsub(Num(1), a), todayRaw),
                        fmul(a, yesterdaySmoothed)))

\* emaScore(todayRaw, yesterdaySmoothed, config)
emaScore(todayRaw, yesterdaySmoothed, config) ==
    IF yesterdaySmoothed = Null \/ yesterdaySmoothed = Undefined
    THEN clamp(todayRaw)
    ELSE LET a == config.emaAlpha
         IN  clamp(fadd(fmul(a, todayRaw),
                        fmul(fsub(Num(1), a), yesterdaySmoothed)))

---------------------------------------------------------------------------
(* lib/scoring.ts: the classifier.  A string is the sequence of its
   characters, each a one-character string. *)

Whitespace == {" ", "\t", "\n"}

UpperCase ==
    <<"A", "B", "C", "D", "E", "F", "G", "H", "I", "J", "K", "L", "M",
      "N", "O", "P", "Q", "R", "S", "T", "U", "V", "W", "X", "Y", "Z">>
LowerCase ==
    <<"a", "b", "c", "d", "e", "f", "g", "h", "i", "j", "k", "l", "m",
      "n", "o", "p", "q", "r", "s", "t", "u", "v", "w", "x", "y", "z">>

\* One character of String.prototype.toLowerCase.
LowerChar(c) ==
    IF \E k \in 1..Len(UpperCase) : UpperCase[k] = c
    THEN LowerCase[CHOOSE k \in 1..Len(UpperCase) : UpperCase[k] = c]
    ELSE c

RECURSIVE toLowerCase(_)
toLowerCase(s) ==
    IF s = << >> THEN << >>
    ELSE <<LowerChar(Head(s))>> \o toLowerCase(Tail(s))

\* String.prototype.trim: the string without its leading and trailing
\* white space.
trim(s) ==
    LET inked == {i \in 1..Len(s) : s[i] \notin Whitespace}
    IN  IF inked = {} THEN << >>
        ELSE SubSeq(s, CHOOSE i \in inked : \A j \in inked : i <= j,
                       CHOOSE i \in inked : \A j \in inked : i >= j)

\* t.includes(w)
includes(t, w) ==
    \E i \in 0..(Len(t) - Len(w)) : SubSeq(t, i + 1, i + Len(w)) = w

\* const hit = (words) => words.some((w) => t.includes(w))
hit(words, t) == \E k \in 1..Len(words) : includes(t, words[k])

\* A slip: the text is trimmed and not lowercased.
Normalize_NoLowerCase(s) == trim(s)

\* const t = text.trim().toLowerCase()
Normalize(s) == toLowerCase(trim(s))

\* line 105: walk, run, gym, workout, yoga, stretch, exercise
Words1 ==
    <<<<"w", "a", "l", "k">>,
      <<"r", "u", "n">>,
      <<"g", "y", "m">>,
      <<"w", "o", "r", "k", "o", "u", "t">>,
      <<"y", "o", "g", "a">>,
      <<"s", "t", "r", "e", "t", "c", "h">>,
      <<"e", "x", "e", "r", "c", "i", "s", "e">>>>

\* line 106: cook, healthy, salad, water, hydrated
Words2 ==
    <<<<"c", "o", "o", "k">>,
      <<"h", "e", "a", "l", "t", "h", "y">>,
      <<"s", "a", "l", "a", "d">>,
      <<"w", "a", "t", "e", "r">>,
      <<"h", "y", "d", "r", "a", "t", "e", "d">>>>

\* line 107: called, meet, met, friend, family, talked
Words3 ==
    <<<<"c", "a", "l", "l", "e", "d">>,
      <<"m", "e", "e", "t">>,
      <<"m", "e", "t">>,
      <<"f", "r", "i", "e", "n", "d">>,
      <<"f", "a", "m", "i", "l", "y">>,
      <<"t", "a", "l", "k", "e", "d">>>>

\* line 108: focused, deep work, finish, completed, shipped
Words4 ==
    <<<<"f", "o", "c", "u", "s", "e", "d">>,
      <<"d", "e", "e", "p", " ", "w", "o", "r", "k">>,
      <<"f", "i", "n", "i", "s", "h">>,
      <<"c", "o", "m", "p", "l", "e", "t", "e", "d">>,
      <<"s", "h", "i", "p", "p", "e", "d">>>>

\* line 109: journal, meditate, meditation, breath, therapy
Words5 ==
    <<<<"j", "o", "u", "r", "n", "a", "l">>,
      <<"m", "e", "d", "i", "t", "a", "t", "e">>,
      <<"m", "e", "d", "i", "t", "a", "t", "i", "o", "n">>,
      <<"b", "r", "e", "a", "t", "h">>,
      <<"t", "h", "e", "r", "a", "p", "y">>>>

\* line 110: slept early, sleep early, 8 hours, good sleep
Words6 ==
    <<<<"s", "l", "e", "p", "t", " ", "e", "a", "r", "l", "y">>,
      <<"s", "l", "e", "e", "p", " ", "e", "a", "r", "l", "y">>,
      <<"8", " ", "h", "o", "u", "r", "s">>,
      <<"g", "o", "o", "d", " ", "s", "l", "e", "e", "p">>>>

\* line 113: doomscroll, scrolling, tiktok, instagram for hours
Words7 ==
    <<<<"d", "o", "o", "m", "s", "c", "r", "o", "l", "l">>,
      <<"s", "c", "r", "o", "l", "l", "i", "n", "g">>,
      <<"t", "i", "k", "t", "o", "k">>,
      <<"i", "n", "s", "t", "a", "g", "r", "a", "m", " ", "f", "o", "r", " ", "h", "o", "u", "r", "s">>>>

\* line 114: stayed up, 3am, 4am, no sleep, insomnia
Words8 ==
    <<<<"s", "t", "a", "y", "e", "d", " ", "u", "p">>,
      <<"3", "a", "m">>,
      <<"4", "a", "m">>,
      <<"n", "o", " ", "s", "l", "e", "e", "p">>,
      <<"i", "n", "s", "o", "m", "n", "i", "a">>>>

\* line 115: drank, alcohol, hangover
Words9 ==
    <<<<"d", "r", "a", "n", "k">>,
      <<"a", "l", "c", "o", "h", "o", "l">>,
      <<"h", "a", "n", "g", "o", "v", "e", "r">>>>

\* line 116: argued, fight, shouted, rage
Words10 ==
    <<<<"a", "r", "g", "u", "e", "d">>,
      <<"f", "i", "g", "h", "t">>,
      <<"s", "h", "o", "u", "t", "e", "d">>,
      <<"r", "a", "g", "e">>>>

\* line 117: avoided, procrastinated, skipped
Words11 ==
    <<<<"a", "v", "o", "i", "d", "e", "d">>,
      <<"p", "r", "o", "c", "r", "a", "s", "t", "i", "n", "a", "t", "e", "d">>,
      <<"s", "k", "i", "p", "p", "e", "d">>>>

Res(c, v) == [category |-> c, value |-> Num(v)]

\* The chain of if (hit([...])) return {...} over the normalized text t.
RuleChain(t) ==
    IF hit(Words1, t) THEN Res("Physical", 4)
    ELSE IF hit(Words2, t) THEN Res("Physical", 2)
    ELSE IF hit(Words3, t) THEN Res("Social", 3)
    ELSE IF hit(Words4, t) THEN Res("Focus", 4)
    ELSE IF hit(Words5, t) THEN Res("EmotionRegulation", 3)
    ELSE IF hit(Words6, t) THEN Res("Sleep", 4)
    ELSE IF hit(Words7, t) THEN Res("Avoidance", -3)
    ELSE IF hit(Words8, t) THEN Res("Sleep", -4)
    ELSE IF hit(Words9, t) THEN Res("Impulse", -3)
    ELSE IF hit(Words10, t) THEN Res("Impulse", -4)
    ELSE IF hit(Words11, t) THEN Res("Avoidance", -2)
    ELSE Res("Other", 0)

scoreEntryLocal(s) == RuleChain(Normalize(s))

---------------------------------------------------------------------------
(* Date.  A time value is a whole number of hours since 1970-01-01T00:00Z
   (the double's milliseconds, scaled down).  The calendar is the proleptic
   Gregorian calendar of ECMAScript. *)

HoursPerDay == 24

\* Day(t) and HourFromTime(t)
Day(t) == t \div HoursPerDay
HourFromTime(t) == t % HoursPerDay

\* The day number of the civil date y-m-d (m in 1..12).
DaysFromCivil(y, m, d) ==
    LET yy == IF m <= 2 THEN y - 1 ELSE y
        era == yy \div 400
        yoe == yy - era * 400
        mp == IF m > 2 THEN m - 3 ELSE m + 9
        doy == (153 * mp + 2) \div 5 + d - 1
        doe == yoe * 365 + yoe \div 4 - yoe \div 100 + doy
    IN  era * 146097 + doe - 719468

\* The civil date of a day number: YearFromTime, MonthFromTime (here in
\* 1..12) and DateFromTime.
CivilFromDays(n) ==
    LET z == n + 719468
        era == z \div 146097
        doe == z - era * 146097
        yoe == (doe - doe \div 1460 + doe \div 36524 - doe \div 146096) \div 365
        doy == doe - (365 * yoe + yoe \div 4 - yoe \div 100)
        mp == (5 * doy + 2) \div 153
        dd == doy - (153 * mp + 2) \div 5 + 1
        mm == IF mp < 10 THEN mp + 3 ELSE mp - 9
    IN  [y |-> (yoe + era * 400) + (IF mm <= 2 THEN 1 ELSE 0), m |-> mm, d |-> dd]

\* A time zone: the offset from UTC outside and inside daylight saving time,
\* and the time values between which daylight saving time is in force.
ZoneOffset(z, t) == IF z.dstFrom <= t /\ t < z.dstTo THEN z.dst ELSE z.std

\* LocalTime(t)
LocalTime(z, t) == t + ZoneOffset(z, t)

\* UTC(t): the time value of the local time tl.  A local time that occurs
\* twice is the earlier of the two; one that a transition skips is read with
\* the offset in force before the transition.
UTC(z, tl) ==
    LET os == {o \in {z.std, z.dst} : ZoneOffset(z, tl - o) = o}
        hi == IF z.std >= z.dst THEN z.std ELSE z.dst
        lo == IF z.std >= z.dst THEN z.dst ELSE z.std
    IN  IF os = {} THEN tl - lo
        ELSE IF hi \in os THEN tl - hi ELSE tl - lo

\* d.getFullYear(), d.getMonth() (0-based) and d.getDate()
getFullYear(z, t) == CivilFromDays(Day(LocalTime(z, t))).y
getMonth(z, t) == CivilFromDays(Day(LocalTime(z, t))).m - 1
getDate(z, t) == CivilFromDays(Day(LocalTime(z, t))).d

\* A slip: the local time is not taken back to a time value.
setDate_NoUTC(z, t, dt) ==
    LET tl == LocalTime(z, t)
        c == CivilFromDays(Day(tl))
        day == DaysFromCivil(c.y, c.m, 1) + dt - 1
    IN  day * HoursPerDay + HourFromTime(tl)

\* dd.setDate(dt): MakeDate(MakeDay(year, month, dt), TimeWithinDay) of the
\* local time, back to a time value.  dt may be 0 or negative.
setDate(z, t, dt) ==
    LET tl == LocalTime(z, t)
        c == CivilFromDays(Day(tl))
        day == DaysFromCivil(c.y, c.m, 1) + dt - 1
    IN  UTC(z, day * HoursPerDay + HourFromTime(tl))

\* d.toISOString(): the UTC fields of the time value.
toISOString(t) ==
    LET c == CivilFromDays(Day(t))
    IN  [y |-> c.y, m |-> c.m, d |-> c.d, h |-> HourFromTime(t)]

\* new Date(iso): the time value of an ISO string.
DateParse(iso) == DaysFromCivil(iso.y, iso.m, iso.d) * HoursPerDay + iso.h

Digits == <<"0", "1", "2", "3", "4", "5", "6", "7", "8", "9">>

\* String(n), n >= 0
RECURSIVE String(_)
String(n) ==
    IF n < 10 THEN <<Digits[n + 1]>>
    ELSE String(n \div 10) \o <<Digits[(n % 10) + 1]>>

\* s.padStart(2, "0")
padStart2(s) == IF Len(s) < 2 THEN <<"0">> \o s ELSE s

\* A slip: the key is made of the UTC date.
toLocalDateKey_UTC(z, iso) ==
    LET c == CivilFromDays(Day(DateParse(iso)))
    IN  String(c.y) \o <<"-">> \o padStart2(String(c.m)) \o <<"-">> \o padStart2(String(c.d))

\* toLocalDateKey(iso): `${y}-${m}-${day}` of the local date.
toLocalDateKey(z, iso) ==
    LET d == DateParse(iso)
        y == getFullYear(z, d)
        m == padStart2(String(getMonth(z, d) + 1))
        day == padStart2(String(getDate(z, d)))
    IN  String(y) \o <<"-">> \o m \o <<"-">> \o day

---------------------------------------------------------------------------
(* The classifier called on its own: scoreEntryLocal is exported and takes
   any string. *)

\* The pieces the input strings are made of: white space, a capitalised
\* keyword of the first rule, keywords of later rules, a keyword with a
\* space in it in two halves, a word that is no keyword.
Fragments ==
    { <<" ">>,
      <<"W", "a", "l", "k">>,
      <<"d", "r", "a", "n", "k">>,
      <<"s", "k", "i", "p", "p">>,
      <<"e", "d">>,
      <<"g", "y", "m">>,
      <<"d", "e", "e", "p">>,
      <<"w", "o", "r", "k">>,
      <<"n", "a", "p">> }

\* The most pieces in one input string.
MaxFragments == 3

\* The strings of at most k pieces.
RECURSIVE Texts(_)
Texts(k) ==
    IF k = 0 THEN {<< >>}
    ELSE Texts(k - 1) \cup {t \o f : t \in Texts(k - 1), f \in Fragments}

\* scoreEntryLocal has not returned yet.
NoResult == [category |-> "", value |-> Undefined]

ClassifierInit ==
    /\ text \in Texts(MaxFragments)
    /\ scored = NoResult

Classify ==
    /\ scored = NoResult
    /\ scored' = scoreEntryLocal(text)
    /\ UNCHANGED text

ClassifierIdle == text = << >> /\ scored = NoResult

---------------------------------------------------------------------------
(* The day aggregator called on its own: scoreDayFromValues is exported and
   takes any number[] and any ScoreConfig. *)

\* The longest list of values.
MaxValues == 3

\* A value so large that two of them overflow the double, and lambda times
\* one of them does too (1e308 in the double).
Big == (MaxNum \div 10) * 6

\* The values a note may carry: the classifier's, the nominal bounds -5 and
\* +10, and the out-of-range values a stored note may hold.
NoteValues == {fneg(Big), Num(-5), Num(-3), Num(0), Num(3), Num(4), Num(10), Big}

\* The configurations: the default, two others with lambda > 1 and
\* scale > 0, and the malformed one with scale = 0.
Configs ==
    { DEFAULT_CONFIG,
      [lambda |-> Dec(1, 1), scale |-> Num(1), emaAlpha |-> Dec(0, 3)],
      [lambda |-> Num(3), scale |-> Dec(0, 5), emaAlpha |-> Dec(0, 3)],
      [lambda |-> Dec(1, 8), scale |-> Num(0), emaAlpha |-> Dec(0, 3)] }

\* No call of scoreDayFromValues has returned yet.
NoScore == [positiveSum |-> Undefined, negativeSum |-> Undefined, rawScore |-> Undefined]

DayInit ==
    /\ values = << >>
    /\ cfg \in Configs
    /\ dayScore = NoScore

\* The first call, on the values as they are.
ScoreDay ==
    /\ dayScore = NoScore
    /\ dayScore' = scoreDayFromValues(values, cfg)
    /\ UNCHANGED <<values, cfg>>

\* One more value in the list, and the call on the new list.
AppendValue(v) ==
    /\ dayScore # NoScore
    /\ Len(values) < MaxValues
    /\ values' = Append(values, v)
    /\ dayScore' = scoreDayFromValues(values', cfg)
    /\ UNCHANGED cfg

\* One value of the list changed, the others held fixed, and the call on
\* the new list.
ReplaceValue(i, v) ==
    /\ dayScore # NoScore
    /\ values[i] # v
    /\ values' = [values EXCEPT ![i] = v]
    /\ dayScore' = scoreDayFromValues(values', cfg)
    /\ UNCHANGED cfg

DayIdle == values = << >> /\ cfg = DEFAULT_CONFIG /\ dayScore = NoScore

---------------------------------------------------------------------------
(* The two pages over the stored notes.  An Entry is
   [id, text, createdAt, category, value]; an absent category is NoCategory
   and an absent value is Undefined. *)

NoCategory == "undefined"

\* typeof v === "number"
typeofNumber(v) == IsNumber(v)

\* A slip: a stored value is clamped to the nominal range [-5, +10].
ValueOf_Clamped(e, sc) ==
    IF typeofNumber(e.value) THEN MathMax(Num(-5), MathMin(Num(10), e.value))
    ELSE sc.value

\* value: typeof e.value === "number" ? e.value : scored.value
ValueOf(e, sc) == IF typeofNumber(e.value) THEN e.value ELSE sc.value

\* category: e.category ?? scored.category
CategoryOf(e, sc) == IF e.category # NoCategory THEN e.category ELSE sc.category

\* The ScoredEntry of an Entry, in both pages:
\*   const scored = scoreEntryLocal(e.text); return {...e, category, value}
ScoredEntryOf(e) ==
    LET sc == scoreEntryLocal(e.text)
    IN  [e EXCEPT !.category = CategoryOf(e, sc), !.value = ValueOf(e, sc)]

\* xs.map(f) for f = ScoredEntryOf, and xs.map((e) => e.value)
RECURSIVE MapScored(_)
MapScored(es) ==
    IF es = << >> THEN << >>
    ELSE <<ScoredEntryOf(Head(es))>> \o MapScored(Tail(es))
RECURSIVE MapValue(_)
MapValue(es) ==
    IF es = << >> THEN << >>
    ELSE <<Head(es).value>> \o MapValue(Tail(es))
IdsOf(es) == {es[i].id : i \in 1..Len(es)}

\* entries.filter((e) => toLocalDateKey(e.createdAt) === dateKey)
FilterByKey(z, es, dateKey) ==
    LET OnDay(e) == toLocalDateKey(z, e.createdAt) = dateKey
    IN  SelectSeq(es, OnDay)

\* The report covers lastNDaysKeys(7).
WindowDays == 7

\* lastNDaysKeys(n): the key of today, of yesterday, ... (newest first).
\* The loop runs from i on: keys.push(...) for i, i + 1, ..., n - 1.
RECURSIVE lastNDaysKeysFrom(_, _, _, _)
lastNDaysKeysFrom(z, t, n, i) ==
    IF i >= n THEN << >>
    ELSE <<toLocalDateKey(z, toISOString(setDate(z, t, getDate(z, t) - i)))>>
         \o lastNDaysKeysFrom(z, t, n, i + 1)

lastNDaysKeys(z, t, n) == lastNDaysKeysFrom(z, t, n, 0)

\* keys.reverse()
RECURSIVE Reverse(_)
Reverse(s) == IF s = << >> THEN << >> ELSE Append(Reverse(Tail(s)), Head(s))

\* The most notes in storage.
MaxEntries == 3

\* The log page's todayKey, todayEntries, scoredToday and todayScore for the
\* entries es, as the render after setEntries(es) computes them.
RenderLog(es) ==
    LET todayKey == toLocalDateKey(tz, toISOString(now))
        todayEntries == FilterByKey(tz, es, todayKey)
        sc == MapScored(todayEntries)
    IN  /\ scoredToday' = sc
        /\ todayScore' = scoreDayFromValues(MapValue(sc), DEFAULT_CONFIG)
        /\ calls' = IdsOf(todayEntries)

ReportDone == Len(days) = Len(keys)

\* The log page is opened: Page mounts, loads the entries and renders.
OpenLog ==
    /\ page = "closed" \/ (page = "report" /\ ReportDone)
    /\ page' = "log"
    /\ RenderLog(entries)
    /\ keys' = << >>
    /\ days' = << >>
    /\ prevSmoothed' = Null
    /\ UNCHANGED <<now, tz, entries>>

\* uid(): an id no stored note has.
FreshId(es) == CHOOSE i \in 1..(Len(es) + 1) : i \notin IdsOf(es)

\* addEntry() with the text s in the textarea.
AddEntry(s) ==
    /\ page = "log"
    /\ Len(trim(s)) >= 2
    /\ Len(entries) < MaxEntries
    /\ LET t == trim(s)
           sc == scoreEntryLocal(t)
           withScore == [id |-> FreshId(entries), text |-> t,
                         createdAt |-> toISOString(now),
                         category |-> sc.category, value |-> sc.value]
           next == <<withScore>> \o entries
       IN  /\ entries' = next
           /\ RenderLog(next)
    /\ UNCHANGED <<now, tz, page, keys, prevSmoothed, days>>

\* removeEntry(id)
RemoveEntry(id) ==
    /\ page = "log"
    /\ id \in IdsOf(entries)
    /\ LET Keep(e) == e.id # id
           next == SelectSeq(entries, Keep)
       IN  /\ entries' = next
           /\ RenderLog(next)
    /\ UNCHANGED <<now, tz, page, keys, prevSmoothed, days>>

\* The report page is opened: ReportPage mounts, loads the entries and
\* starts the memo days: the keys, oldest first, and prevSmoothed = null.
OpenReport ==
    /\ page \in {"closed", "log"}
    /\ page' = "report"
    /\ keys' = Reverse(lastNDaysKeys(tz, now, WindowDays))
    /\ prevSmoothed' = Null
    /\ days' = << >>
    /\ calls' = {}
    /\ scoredToday' = << >>
    /\ todayScore' = NoScore
    /\ UNCHANGED <<now, tz, entries>>

\* One call of the callback of keys.map, on the next key.
ReportDay ==
    /\ page = "report"
    /\ ~ReportDone
    /\ LET dateKey == keys[Len(days) + 1]
           found == FilterByKey(tz, entries, dateKey)
           dayEntries == MapScored(found)
           base == scoreDayFromValues(MapValue(dayEntries), DEFAULT_CONFIG)
           smoothed == emaScore(base.rawScore, prevSmoothed, DEFAULT_CONFIG)
       IN  /\ prevSmoothed' = smoothed
           /\ days' = Append(days, [dateKey |-> dateKey, entries |-> dayEntries,
                                    positiveSum |-> base.positiveSum,
                                    negativeSum |-> base.negativeSum,
                                    rawScore |-> base.rawScore,
                                    smoothedScore |-> smoothed])
           /\ calls' = calls \cup IdsOf(found)
    /\ UNCHANGED <<now, tz, page, entries, scoredToday, todayScore, keys>>

---------------------------------------------------------------------------
(* The Emotion Analyzer page: analyze and Page (text, result, busy). *)

\* line 154: happy, glad, excited, grateful, love, amazing, great, awesome
LexJoy ==
    << <<"h", "a", "p", "p", "y">>,
       <<"g", "l", "a", "d">>,
       <<"e", "x", "c", "i", "t", "e", "d">>,
       <<"g", "r", "a", "t", "e", "f", "u", "l">>,
       <<"l", "o", "v", "e">>,
       <<"a", "m", "a", "z", "i", "n", "g">>,
       <<"g", "r", "e", "a", "t">>,
       <<"a", "w", "e", "s", "o", "m", "e">> >>

\* line 155: sad, down, hurt, lonely, cry, miss, regret, disappointed
LexSadness ==
    << <<"s", "a", "d">>,
       <<"d", "o", "w", "n">>,
       <<"h", "u", "r", "t">>,
       <<"l", "o", "n", "e", "l", "y">>,
       <<"c", "r", "y">>,
       <<"m", "i", "s", "s">>,
       <<"r", "e", "g", "r", "e", "t">>,
       <<"d", "i", "s", "a", "p", "p", "o", "i", "n", "t", "e", "d">> >>

\* line 156: angry, mad, furious, annoyed, hate, unfair, ridiculous
LexAnger ==
    << <<"a", "n", "g", "r", "y">>,
       <<"m", "a", "d">>,
       <<"f", "u", "r", "i", "o", "u", "s">>,
       <<"a", "n", "n", "o", "y", "e", "d">>,
       <<"h", "a", "t", "e">>,
       <<"u", "n", "f", "a", "i", "r">>,
       <<"r", "i", "d", "i", "c", "u", "l", "o", "u", "s">> >>

\* line 157: anxious, worried, afraid, scared, panic, stressed, nervous
LexAnxiety ==
    << <<"a", "n", "x", "i", "o", "u", "s">>,
       <<"w", "o", "r", "r", "i", "e", "d">>,
       <<"a", "f", "r", "a", "i", "d">>,
       <<"s", "c", "a", "r", "e", "d">>,
       <<"p", "a", "n", "i", "c">>,
       <<"s", "t", "r", "e", "s", "s", "e", "d">>,
       <<"n", "e", "r", "v", "o", "u", "s">> >>

\* lex, in the order Object.entries walks it.
lex ==
    << [emo |-> "Joy", words |-> LexJoy],
       [emo |-> "Sadness", words |-> LexSadness],
       [emo |-> "Anger", words |-> LexAnger],
       [emo |-> "Anxiety", words |-> LexAnxiety] >>

\* The hits `"${w}" -> ${emo}` of the words k, k + 1, ... of the emotion
\* lex[i] and of all the words of the emotions after it, in the order of the
\* two loops.
RECURSIVE reasonHitsFrom(_, _, _)
reasonHitsFrom(t, i, k) ==
    IF i > Len(lex) THEN << >>
    ELSE IF k > Len(lex[i].words) THEN reasonHitsFrom(t, i + 1, 1)
    ELSE (IF includes(t, lex[i].words[k])
          THEN <<[w |-> lex[i].words[k], emo |-> lex[i].emo]>>
          ELSE << >>)
         \o reasonHitsFrom(t, i, k + 1)

\* counts[emo]: one more for every word of the emotion that t includes.
countsOf(t, i) ==
    Cardinality({k \in 1..Len(lex[i].words) : includes(t, lex[i].words[k])})

\* (t.match(/c/g) || []).length
MatchCount(t, c) == Cardinality({i \in 1..Len(t) : t[i] = c})

\* The forEach over the emotions from lex[i] on: counts[e] > top moves top
\* and emotion.
RECURSIVE PickTop(_, _, _)
PickTop(t, i, acc) ==
    IF i > Len(lex) THEN acc
    ELSE PickTop(t, i + 1,
                 IF countsOf(t, i) > acc.top
                 THEN [top |-> countsOf(t, i), emotion |-> lex[i].emo]
                 ELSE acc)

\* rewriteByEmotion[emotion] (the apostrophes are written ').
rewriteByEmotion(e) ==
    CASE e = "Joy" -> "I feel really good about this. I wanted to share it with you and hear your thoughts."
      [] e = "Sadness" -> "I'm feeling down about this. I'd appreciate understanding and a chance to talk it through."
      [] e = "Anger" -> "I'm feeling frustrated. Can we focus on what happened and agree on a clear next step?"
      [] e = "Anxiety" -> "I'm feeling anxious about this. Can we clarify the situation and decide on a small first step?"
      [] OTHER -> "I want to express this clearly: what I care about is ___, and what I hope happens next is ___."

\* The body of analyze after its first line, t being the trimmed and
\* lowercased text.  The reason is kept as its parts: the hits that are
\* written out (none for Neutral) and whether the ellipsis follows them.
analyzeLowered(t) ==
    LET reasonHits == reasonHitsFrom(t, 1, 1)
        exclam == MatchCount(t, "!")
        qmark == MatchCount(t, "?")
        picked == PickTop(t, 1, [top |-> 0, emotion |-> "Neutral"])
        top == picked.top
        emotion == IF top = 0 THEN "Neutral" ELSE picked.emotion
        shown == IF Len(reasonHits) > 4 THEN 4 ELSE Len(reasonHits)
    IN  [emotion |-> emotion,
         score |-> clamp(Num(top * 25 + exclam * 10 + qmark * 5)),
         reason |-> IF emotion = "Neutral"
                    THEN [matched |-> << >>, more |-> FALSE]
                    ELSE [matched |-> SubSeq(reasonHits, 1, shown),
                          more |-> Len(reasonHits) > 4],
         rewrite |-> rewriteByEmotion(emotion)]

\* analyze(text): const t = text.trim().toLowerCase(), computed once, and
\* the rest of the body on it.
analyze(s) ==
    CHOOSE r \in {analyzeLowered(t) : t \in {toLowerCase(trim(s))}} : TRUE

\* useState<Result | null>(null): no result.
NoAnalysis ==
    [emotion |-> "null", score |-> Null,
     reason |-> [matched |-> << >>, more |-> FALSE], rewrite |-> "null"]

\* The texts the user puts into the textarea: nothing, too short a text,
\* texts with one emotion, with marks, and with hits of several emotions.
Sad == <<"S", "a", "d">>
Mad == <<"m", "a", "d">>
AnalyzerTexts ==
    { << >>, <<"o", "k">>, Sad, <<" ">> \o Mad \o <<"!", "?">>,
      Sad \o Mad \o <<"h", "a", "p", "p", "y">>,
      <<"a", "f", "r", "a", "i", "d", "?">> }

\* const canAnalyze = text.trim().length >= 3 && !busy
canAnalyze == Len(trim(eaText)) >= 3 /\ ~busy

AnalyzerInit ==
    /\ eaText = << >>
    /\ result = NoAnalysis
    /\ busy = FALSE
    /\ pending = << >>
    /\ afterReset = FALSE

\* onChange of the textarea: setText(e.target.value)
Type(s) ==
    /\ eaText' = s
    /\ UNCHANGED <<result, busy, pending, afterReset>>

\* A click on Analyze (disabled unless canAnalyze): onAnalyze runs up to its
\* await: setBusy(true), and the timer is started.  What runs after the
\* await reads the text of the render the click came from.
ClickAnalyze ==
    /\ canAnalyze
    /\ busy' = TRUE
    /\ pending' = Append(pending, eaText)
    /\ afterReset' = FALSE
    /\ UNCHANGED <<eaText, result>>

\* The timer of the oldest waiting onAnalyze fires: setResult(analyze(text))
\* and, in the finally, setBusy(false).
Timeout ==
    /\ pending # << >>
    /\ result' = analyze(Head(pending))
    /\ busy' = FALSE
    /\ pending' = Tail(pending)
    /\ UNCHANGED <<eaText, afterReset>>

\* A click on Reset (never disabled): setText(""), setResult(null)
ClickReset ==
    /\ eaText' = << >>
    /\ result' = NoAnalysis
    /\ afterReset' = TRUE
    /\ UNCHANGED <<busy, pending>>

---------------------------------------------------------------------------
(* The stored notes, the clocks and the time zones the pages start from. *)

\* The time value of y-m-d h:00 UTC.
TimeOf(y, m, d, h) == DateParse([y |-> y, m |-> m, d |-> d, h |-> h])

\* UTC, New York (daylight saving time from 2024-03-10 07:00Z to
\* 2024-11-03 06:00Z) and Tokyo.
Zones ==
    { [std |-> 0, dst |-> 0, dstFrom |-> 0, dstTo |-> 0],
      [std |-> -5, dst |-> -4, dstFrom |-> TimeOf(2024, 3, 10, 7), dstTo |-> TimeOf(2024, 11, 3, 6)],
      [std |-> 9, dst |-> 9, dstFrom |-> 0, dstTo |-> 0] }

\* Clocks whose window holds the leap day and the turn of a month, the start
\* of daylight saving time (at the local hour it skips) and its end (at the
\* local hour it repeats).
Clocks == {TimeOf(2024, 3, 3, 23), TimeOf(2024, 3, 12, 6), TimeOf(2024, 11, 5, 6)}

\* How long before the clock a stored note was created, in hours: today,
\* around the last midnights, inside and outside the window.
Ages == {0, 3, 6, 8, 10, 150, 200}

Walk == <<"w", "a", "l", "k">>
Nap == <<"n", "a", "p">>

\* A stored note without a value, as a page without scoring would store it.
PlainNote(t, age) ==
    [id |-> 0, text |-> Walk, createdAt |-> toISOString(t - age),
     category |-> NoCategory, value |-> Undefined]

\* A stored note with a value that the classifier did not give.
ValuedNote(t, age, c, v) ==
    [id |-> 0, text |-> Walk, createdAt |-> toISOString(t - age),
     category |-> c, value |-> v]

\* Lists of at most n of the notes ns, with the ids 1, 2, ...
RECURSIVE NoteLists(_, _)
NoteLists(ns, n) ==
    IF n = 0 THEN {<< >>}
    ELSE NoteLists(ns, n - 1) \cup
         {Append(l, [e EXCEPT !.id = Len(l) + 1]) : l \in {x \in NoteLists(ns, n - 1) : Len(x) = n - 1}, e \in ns}

\* Notes of today and yesterday without a value, and notes of today with a
\* value far out of the nominal range [-5, +10].
ValueNotes(t) ==
    { PlainNote(t, 0), PlainNote(t, 26),
      ValuedNote(t, 0, NoCategory, Big),
      ValuedNote(t, 0, "Impulse", fneg(Big)) }

\* Notes of many ages.
DatedNotes(t) == {PlainNote(t, a) : a \in Ages}

AppIdle ==
    /\ page = "closed"
    /\ scoredToday = << >>
    /\ todayScore = NoScore
    /\ keys = << >>
    /\ prevSmoothed = Null
    /\ days = << >>
    /\ calls = {}

AppInit ==
    /\ AppIdle
    /\ \/ /\ tz \in Zones
          /\ now \in Clocks
          /\ entries \in {<< >>} \cup {<<[e EXCEPT !.id = 1]>> : e \in DatedNotes(now)}
       \/ /\ tz \in {z \in Zones : z.std = 0}
          /\ now = TimeOf(2024, 3, 12, 6)
          /\ entries \in NoteLists(ValueNotes(now), MaxEntries)

AppOff ==
    /\ AppIdle
    /\ tz \in {z \in Zones : z.std = 0}
    /\ now = 0
    /\ entries = << >>

\* The texts typed into the log page.
TypedTexts == {<<" ">> \o Nap \o <<" ">>, <<"x", " ">>}

Init == AppInit /\ ClassifierIdle /\ DayIdle /\ AnalyzerInit

Next ==
    \/ OpenLog /\ UNCHANGED <<classifierVars, dayVars, analyzerVars>>
    \/ \E s \in TypedTexts : AddEntry(s) /\ UNCHANGED <<classifierVars, dayVars, analyzerVars>>
    \/ \E id \in 1..MaxEntries : RemoveEntry(id) /\ UNCHANGED <<classifierVars, dayVars, analyzerVars>>
    \/ OpenReport /\ UNCHANGED <<classifierVars, dayVars, analyzerVars>>
    \/ ReportDay /\ UNCHANGED <<classifierVars, dayVars, analyzerVars>>

Spec == Init /\ [][Next]_vars

InitDay == DayInit /\ ClassifierIdle /\ AppOff /\ AnalyzerInit
NextDay ==
    \/ ScoreDay /\ UNCHANGED <<classifierVars, appVars, analyzerVars>>
    \/ \E v \in NoteValues : AppendValue(v) /\ UNCHANGED <<classifierVars, appVars, analyzerVars>>
    \/ \E i \in 1..Len(values), v \in NoteValues :
          ReplaceValue(i, v) /\ UNCHANGED <<classifierVars, appVars, analyzerVars>>
SpecDay == InitDay /\ [][NextDay]_vars

---------------------------------------------------------------------------
(* Properties of the day aggregator, under SpecDay. *)

\* 0 <= x <= 100, as JavaScript compares (false of NaN).
InRange(x) == Leq(Num(0), x) /\ Leq(x, Num(100))

\* A configuration the contract allows: lambda > 1 and scale > 0.
WellFormed(config) == config.lambda > Num(1) /\ config.scale > Num(0)

\* C1: for every finite sequence of finite values and every config with
\* lambda > 1 and scale > 0, rawScore is in [0,100]; for the empty sequence
\* rawScore = 50, positiveSum = 0 and negativeSum = 0.
C1_RawScoreInRange ==
    (dayScore # NoScore /\ WellFormed(cfg) /\ \A i \in 1..Len(values) : IsFinite(values[i]))
    => /\ InRange(dayScore.rawScore)
       /\ values = << >> =>
            /\ dayScore.rawScore = Num(50)
            /\ dayScore.positiveSum = Num(0)
            /\ dayScore.negativeSum = Num(0)

\* C6: a configuration with scale = 0 is rejected before any score is
\* computed: scoreDayFromValues returns no score for it, so never a rawScore
\* that is NaN or outside [0,100].
C6_ScaleZeroRejected ==
    cfg.scale = Num(0) => dayScore = NoScore

\* C7: with the config fixed (lambda > 1, scale > 0) and all other values
\* held fixed, rawScore does not decrease when one positive value is
\* increased, and does not increase when the magnitude of one negative value
\* is increased.
C7_Monotone ==
    [][\A i \in 1..Len(values) :
          ( /\ dayScore # NoScore
            /\ WellFormed(cfg)
            /\ Len(values') = Len(values)
            /\ \A j \in 1..Len(values) : j # i => values'[j] = values[j] )
          => /\ (values[i] > 0 /\ values'[i] > values[i])
                  => Geq(dayScore'.rawScore, dayScore.rawScore)
             /\ (values[i] < 0 /\ values'[i] < values[i])
                  => Leq(dayScore'.rawScore, dayScore.rawScore)]_vars

\* The sum of max(0, v) and the sum of max(0, -v) over a sequence, each
\* value added to the sum of the values after it.
RECURSIVE SumOfPositives(_)
SumOfPositives(vs) ==
    IF vs = << >> THEN Num(0)
    ELSE fadd(IF Head(vs) > 0 THEN Head(vs) ELSE Num(0), SumOfPositives(Tail(vs)))
RECURSIVE SumOfNegatives(_)
SumOfNegatives(vs) ==
    IF vs = << >> THEN Num(0)
    ELSE fadd(IF Head(vs) < 0 THEN -Head(vs) ELSE Num(0), SumOfNegatives(Tail(vs)))

\* C8: positiveSum is the sum of max(0, v) and negativeSum the sum of
\* max(0, -v) over the values, so both are >= 0; [4, 3, -3] gives 7 and 3.
C8_Sums ==
    dayScore # NoScore
    => /\ dayScore.positiveSum = SumOfPositives(values)
       /\ dayScore.negativeSum = SumOfNegatives(values)
       /\ Geq(dayScore.positiveSum, Num(0))
       /\ Geq(dayScore.negativeSum, Num(0))
       /\ values = <<Num(4), Num(3), Num(-3)>>
            => dayScore.positiveSum = Num(7) /\ dayScore.negativeSum = Num(3)

\* C8's case: a list with positive and negative values has been scored.
C8_Witness ==
    /\ values = <<Num(4), Num(3), Num(-3)>>
    /\ dayScore.positiveSum = Num(7)
    /\ dayScore.negativeSum = Num(3)


\* C11: for any config with lambda > 1 and scale > 0, rawScore >= 50 iff
\* positiveSum >= lambda * negativeSum; a day whose positive mass equals its
\* negative mass (p = n > 0) scores strictly below 50.
C11_LossAversionThreshold ==
    (dayScore # NoScore /\ WellFormed(cfg))
    => /\ Geq(dayScore.rawScore, Num(50))
          <=> Geq(dayScore.positiveSum, fmul(cfg.lambda, dayScore.negativeSum))
       /\ (dayScore.positiveSum = dayScore.negativeSum /\ dayScore.positiveSum > Num(0))
          => (Leq(dayScore.rawScore, Num(50)) /\ dayScore.rawScore # Num(50))


InitClassifier == ClassifierInit /\ DayIdle /\ AppOff /\ AnalyzerInit
NextClassifier == Classify /\ UNCHANGED <<dayVars, appVars, analyzerVars>>
SpecClassifier == InitClassifier /\ [][NextClassifier]_vars

---------------------------------------------------------------------------
(* Properties of the classifier, under SpecClassifier. *)

\* The fixed ordered rule list of scoreEntryLocal.
Rules ==
    << [words |-> Words1, category |-> "Physical", value |-> 4],
       [words |-> Words2, category |-> "Physical", value |-> 2],
       [words |-> Words3, category |-> "Social", value |-> 3],
       [words |-> Words4, category |-> "Focus", value |-> 4],
       [words |-> Words5, category |-> "EmotionRegulation", value |-> 3],
       [words |-> Words6, category |-> "Sleep", value |-> 4],
       [words |-> Words7, category |-> "Avoidance", value |-> -3],
       [words |-> Words8, category |-> "Sleep", value |-> -4],
       [words |-> Words9, category |-> "Impulse", value |-> -3],
       [words |-> Words10, category |-> "Impulse", value |-> -4],
       [words |-> Words11, category |-> "Avoidance", value |-> -2] >>

\* The eight categories of EntryCategory.
Categories ==
    {"Physical", "Social", "Focus", "EmotionRegulation", "Avoidance",
     "Impulse", "Sleep", "Other"}

\* The word w occurs in the string t.
Occurs(w, t) ==
    \E i \in 1..(Len(t) - Len(w) + 1) : \A k \in 1..Len(w) : t[i + k - 1] = w[k]

\* The rules one of whose keywords occurs in the string t.
Matching(t) ==
    {r \in 1..Len(Rules) : \E k \in 1..Len(Rules[r].words) : Occurs(Rules[r].words[k], t)}

\* C5: scoreEntryLocal returns the (category, value) of the earliest rule,
\* in list order, one of whose keywords occurs in the trimmed lowercased
\* text, and (Other, 0) when no rule matches (the empty string included);
\* the category is one of the eight, the value is in [-5, +10].
C5_FirstMatchWins ==
    scored # NoResult
    => LET m == Matching(toLowerCase(trim(text)))
       IN  /\ m = {} => scored = [category |-> "Other", value |-> Num(0)]
           /\ m # {} =>
                LET first == CHOOSE r \in m : \A q \in m : r <= q
                IN  scored = [category |-> Rules[first].category,
                              value |-> Num(Rules[first].value)]
           /\ scored.category \in Categories
           /\ Num(-5) <= scored.value /\ scored.value <= Num(10)

\* C5's case: a keyword of a later rule comes first in the text, a
\* capitalised keyword of the first rule after it, and the first rule wins.
C5_Witness ==
    /\ text = <<"d", "r", "a", "n", "k", " ", "W", "a", "l", "k">>
    /\ scored = [category |-> "Physical", value |-> Num(4)]



---------------------------------------------------------------------------
(* Properties of the two pages, under Spec. *)

\* The stored note with the id.
Stored(id) == entries[CHOOSE k \in 1..Len(entries) : entries[k].id = id]

\* The ValuedNotes the pages have built: those of the log page's score of
\* today and those of the report's days.
Built ==
    {scoredToday[k] : k \in 1..Len(scoredToday)}
    \cup UNION {{days[i].entries[k] : k \in 1..Len(days[i].entries)} : i \in 1..Len(days)}

\* The values of the ValuedNotes ses, in order.
ValuesOf(ses) == [k \in 1..Len(ses) |-> ses[k].value]

\* C2 as stated: when a ValuedNote is built from a note that carries a
\* numeric value, the classifier is not invoked for that note and the
\* ValuedNote has the stored value.
C2_ClassifierNotInvoked ==
    \A se \in Built :
        typeofNumber(Stored(se.id).value)
        => se.id \notin calls /\ se.value = Stored(se.id).value

\* C2 as amended: when a ValuedNote is built from a note that carries a
\* numeric value, the classifier is invoked on the note's text all the same,
\* its category is used only when the note has none and its value is not
\* used: the ValuedNote has the stored value, unclamped, and the day
\* aggregator sums the values of the ValuedNotes as they are.
C2_StoredValueVerbatim ==
    /\ \A se \in Built :
          LET e == Stored(se.id)
          IN  typeofNumber(e.value)
              => /\ se.id \in calls
                 /\ se.value = e.value
                 /\ se.category = IF e.category = NoCategory
                                  THEN scoreEntryLocal(e.text).category
                                  ELSE e.category
    /\ \A i \in 1..Len(days) :
          /\ days[i].positiveSum = SumOfPositives(ValuesOf(days[i].entries))
          /\ days[i].negativeSum = SumOfNegatives(ValuesOf(days[i].entries))
    /\ page = "log"
       => /\ todayScore.positiveSum = SumOfPositives(ValuesOf(scoredToday))
          /\ todayScore.negativeSum = SumOfNegatives(ValuesOf(scoredToday))

\* C2's case: the report has built a ValuedNote from a stored note whose
\* value is far above +10 and which has no category.
C2_Witness ==
    \E i \in 1..Len(days) : \E k \in 1..Len(days[i].entries) :
        LET se == days[i].entries[k]
        IN  /\ Stored(se.id).value = Big
            /\ Stored(se.id).category = NoCategory
            /\ se.value = Big
            /\ se.category = "Physical"
            /\ days[i].positiveSum >= Big

\* The raw scores of the report's days so far, oldest first.
RawScores == [i \in 1..Len(days) |-> days[i].rawScore]

\* S_i of the recurrence over the raw scores r with the weight alpha.
RECURSIVE Replay(_, _, _)
Replay(r, alpha, i) ==
    IF i = 1 THEN clamp(r[1])
    ELSE clamp(fadd(fmul(alpha, r[i]),
                    fmul(fsub(Num(1), alpha), Replay(r, alpha, i - 1))))

\* C3: the smoothed score of each day of the report is the S_i of the
\* recurrence S_1 = clamp(r_1), S_i = clamp(alpha r_i + (1 - alpha) S_(i-1))
\* replayed over the raw scores oldest to newest, and the value carried to
\* the next day is the last S_i; raw scores 80 then 40 with alpha = 0.3 give
\* 80 then 68.
C3_EmaReplay ==
    /\ \A i \in 1..Len(days) :
          days[i].smoothedScore = Replay(RawScores, DEFAULT_CONFIG.emaAlpha, i)
    /\ prevSmoothed = IF days = << >> THEN Null
                      ELSE Replay(RawScores, DEFAULT_CONFIG.emaAlpha, Len(days))
    /\ emaScore(Num(80), Null, DEFAULT_CONFIG) = Num(80)
    /\ emaScore(Num(40), Num(80), DEFAULT_CONFIG) = Num(68)

\* C3's case: a finished report with a day whose raw score differs from the
\* one of the day before and from its own smoothed score.
C3_Witness ==
    /\ page = "report" /\ ReportDone
    /\ \E i \in 2..Len(days) :
          /\ IsFinite(days[i].rawScore) /\ IsFinite(days[i - 1].rawScore)
          /\ days[i].rawScore # days[i - 1].rawScore
          /\ days[i].smoothedScore # days[i].rawScore
          /\ days[i].smoothedScore # days[i - 1].smoothedScore

\* The number a string of digits writes.
RECURSIVE NumberOf(_)
NumberOf(s) ==
    IF s = << >> THEN 0
    ELSE 10 * NumberOf(SubSeq(s, 1, Len(s) - 1))
         + (CHOOSE n \in 0..9 : Digits[n + 1] = s[Len(s)])

\* The day number of the calendar date a key yyyy-mm-dd writes.
KeyDay(key) ==
    DaysFromCivil(NumberOf(SubSeq(key, 1, 4)), NumberOf(SubSeq(key, 6, 7)),
                  NumberOf(SubSeq(key, 9, 10)))

\* The day number of the local calendar date of the time value t.
LocalDayOf(t) == Day(LocalTime(tz, t))

\* The day number of the local calendar date a note was created on.
NoteDay(e) == LocalDayOf(DateParse(e.createdAt))

\* C4: the report has exactly WindowDays keys; the i-th is the key of the
\* local calendar day WindowDays - i days before today, so the days are
\* distinct, consecutive, end today and come oldest first; each DayScore
\* has the key of its place, and a day without notes has empty entries and
\* the raw score 50.
C4_WindowOfDays ==
    page = "report"
    => /\ Len(keys) = WindowDays
       /\ \A i \in 1..Len(keys) :
             /\ Len(keys[i]) = 10
             /\ KeyDay(keys[i]) = LocalDayOf(now) - (WindowDays - i)
       /\ Len(days) <= WindowDays
       /\ \A i \in 1..Len(days) :
             /\ days[i].dateKey = keys[i]
             /\ (\A k \in 1..Len(entries) : NoteDay(entries[k]) # KeyDay(keys[i]))
                => /\ days[i].entries = << >>
                   /\ days[i].rawScore = Num(50)

\* C4's case: a finished report in a zone whose clocks changed inside the
\* window, with a day that has notes and a day that has none.
C4_Witness ==
    /\ page = "report" /\ ReportDone
    /\ Len(days) = WindowDays
    /\ tz.std # tz.dst
    /\ tz.dstFrom < now /\ now - tz.dstFrom < 3 * HoursPerDay
    /\ \E i \in 1..Len(days) : days[i].entries = << >> /\ days[i].rawScore = Num(50)
    /\ \E i \in 1..Len(days) : days[i].entries # << >>

\* C9 as stated: the smoothed score of every day of the report, and the
\* value carried from one day to the next, is in [0, 100].
C9_SmoothedInRange ==
    /\ \A i \in 1..Len(days) : InRange(days[i].smoothedScore)
    /\ prevSmoothed # Null => InRange(prevSmoothed)

\* The time values the pages read: the clock and when each note was created.
Stamps == {now} \cup {DateParse(entries[k].createdAt) : k \in 1..Len(entries)}

\* The days of the report that hold the note in their entries.
DaysHolding(e) == {i \in 1..Len(days) : e.id \in IdsOf(days[i].entries)}

\* C10: two time values get the same key iff they are on the same local
\* calendar date; a day of the report holds a note iff the day's key is the
\* key of the note's local date, it holds the note once, and in a finished
\* report a note of the window is in exactly one day and a note outside the
\* window in none.
C10_LocalDatePartition ==
    /\ \A a, b \in Stamps :
          (toLocalDateKey(tz, toISOString(a)) = toLocalDateKey(tz, toISOString(b)))
          <=> (LocalDayOf(a) = LocalDayOf(b))
    /\ \A k \in 1..Len(entries) :
          LET e == entries[k]
          IN  /\ \A i \in 1..Len(days) :
                    /\ (i \in DaysHolding(e)) <=> (days[i].dateKey = toLocalDateKey(tz, e.createdAt))
                    /\ (i \in DaysHolding(e)) <=> (KeyDay(days[i].dateKey) = NoteDay(e))
                    /\ Cardinality({j \in 1..Len(days[i].entries) : days[i].entries[j].id = e.id}) <= 1
              /\ (page = "report" /\ ReportDone)
                 => Cardinality(DaysHolding(e)) =
                      IF /\ LocalDayOf(now) - WindowDays < NoteDay(e)
                         /\ NoteDay(e) <= LocalDayOf(now)
                      THEN 1 ELSE 0

\* C10's case: a finished report holds a note whose local date is not its
\* UTC date, in the day of its local date and not of today.
C10_Witness ==
    /\ page = "report" /\ ReportDone
    /\ \E k \in 1..Len(entries) : \E i \in 1..Len(days) :
          /\ i \in DaysHolding(entries[k])
          /\ i # Len(days)
          /\ Day(DateParse(entries[k].createdAt)) # NoteDay(entries[k])
          /\ KeyDay(days[i].dateKey) = NoteDay(entries[k])

---------------------------------------------------------------------------
(* The Emotion Analyzer page on its own.  A started timer fires. *)

InitAnalyzer == AnalyzerInit /\ ClassifierIdle /\ DayIdle /\ AppOff
TimeoutStep == Timeout /\ UNCHANGED <<classifierVars, dayVars, appVars>>
NextAnalyzer ==
    \/ \E s \in AnalyzerTexts : Type(s) /\ UNCHANGED <<classifierVars, dayVars, appVars>>
    \/ ClickAnalyze /\ UNCHANGED <<classifierVars, dayVars, appVars>>
    \/ TimeoutStep
    \/ ClickReset /\ UNCHANGED <<classifierVars, dayVars, appVars>>
SpecAnalyzer == InitAnalyzer /\ [][NextAnalyzer]_vars /\ WF_vars(TimeoutStep)

\* C12: under any interleaving of Analyze clicks, Reset clicks and the
\* delayed completions of onAnalyze, after a Reset the result stays null
\* until Analyze is clicked again, at most one analysis is in flight at a
\* time, and busy always eventually returns to false.
C12_AnalyzerInterleavings ==
    /\ [](afterReset => result = NoAnalysis)
    /\ [](Len(pending) <= 1)
    /\ busy ~> ~busy

====
